---- MODULE Spec2Model ----
(***************************************************************************)
(* Model of AbstractSensorChannelInterface (qt-api/abstractsensor_i.cpp):  *)
(* the client-side session object that drives a remote sensor over a       *)
(* blocking control channel (D-Bus calls and property reads) and a data    *)
(* socket.  Every public operation runs to completion on the single owner  *)
(* thread, so each operation is one atomic action.  The remote service is  *)
(* external: what its calls and properties return is chosen freely.        *)
(***************************************************************************)
EXTENDS Integers, Sequences, FiniteSets, TLC

\* ---------------------------------------------------------------- bounds
MaxStarts == 2                      \* not-running -> running transitions explored
MaxFrames == 3                      \* complete frames buffered at a readyRead()

\* ------------------------------------------------------ values and inputs
SNoError           == "SNoError"
SClientSocketError == "SClientSocketError"
SessionId          == 7
IntervalValues     == {0, 100}              \* arguments of setInterval(int)
BufferIntervals    == {0, 10}               \* arguments of setBufferInterval(unsigned)
BufferSizes        == {1, 10}               \* arguments of setBufferSize(unsigned)
RemoteInts         == {0, 50}               \* what a remote integer property may hold
RemoteErrorCodes   == {SNoError, "SaCannotAccessSensor"}
RemoteStrings      == {"", "remote"}
DataRanges         == { [min |-> 0, max |-> m, resolution |-> 1] : m \in {2, 8} }
\* Replies to getAvailableDataRanges; a failed call yields the empty list.
DataRangeLists     == {<<>>} \cup { <<a>> : a \in DataRanges }
                             \cup { <<a, b>> : a \in DataRanges, b \in DataRanges }
RangeIndices       == {-1, 0, 1}
IntervalLists      == {<<>>, << [min |-> 0, max |-> 100, resolution |-> 0] >>}
IntegerRangeLists  == {<<>>, << [min |-> 0, max |-> 10] >>}
FrameSize          == 2                     \* bytes of one complete frame

VARIABLES
    errorCode_,        \* pimpl_->errorCode_
    errorString_,      \* pimpl_->errorString_
    sessionId_,        \* pimpl_->sessionId_
    interval_,         \* pimpl_->interval_
    bufferInterval_,   \* pimpl_->bufferInterval_
    bufferSize_,       \* pimpl_->bufferSize_
    running_,          \* pimpl_->running_
    standbyOverride_,  \* pimpl_->standbyOverride_
    connections,       \* readyRead() -> dataReceived() connections held
    socketOpen,        \* result of socketReader_.initiateConnection(sessionId)
    fatal,             \* the process was terminated inside an operation
    last,              \* record of the most recent public call
    prev,              \* the call before it, when that was a value setter
    nStart, nStop,     \* start / stop RPCs issued since construction
    nUp, nDown,        \* running_ false->true / true->false transitions
    issued,            \* some RPC was issued since construction
    pristine,          \* only const readers were called since construction
    given,             \* the value most recently passed to each setter
    released,          \* release() has returned true
    alive              \* the destructor has not run

vars == << errorCode_, errorString_, sessionId_, interval_, bufferInterval_,
           bufferSize_, running_, standbyOverride_, connections, socketOpen,
           fatal, last, prev, nStart, nStop, nUp, nDown, issued, pristine,
           given, released, alive >>

\* ----------------------------------------------------------- bookkeeping
\* One call on the control channel, with the session state it was issued in.
Rpc(name, args, run, conns) ==
    [name |-> name, args |-> args, running |-> run, subscribed |-> conns > 0]

NoCall == [name |-> "none"]

SetterNames == {"setInterval", "setBufferInterval", "setBufferSize"}

\* The const property accessors.
ReaderNames == {"interval", "bufferInterval", "bufferSize", "standbyOverride",
                "description", "id", "type", "errorCode", "errorString",
                "sessionId"}

\* The record of one public call: its argument, the state it found, the RPCs
\* it issued in order, the remote properties it read, and what it returned.
Call(name, arg, rpcs, reads, result) ==
    [name |-> name, arg |-> arg, wasRunning |-> running_,
     wasReleased |-> released,
     hadError |-> errorCode_, hadString |-> errorString_,
     rpcs |-> rpcs, reads |-> reads, result |-> result]

Shift == IF last.name \in SetterNames
         THEN [name |-> last.name, arg |-> last.arg,
               wasRunning |-> last.wasRunning, rpcs |-> last.rpcs]
         ELSE NoCall

CountOf(name, rpcs) == Cardinality({ i \in DOMAIN rpcs : rpcs[i].name = name })

Usable == alive /\ ~fatal

\* ------------------------------------------------------------ constructor
\* A constructor that ignores initiateConnection()'s result.
ConstructNoError(opened) == [code |-> SNoError, str |-> ""]

\* The local error the constructor leaves, given initiateConnection()'s result.
ConstructError(opened) ==
    IF opened THEN [code |-> SNoError, str |-> ""]
    ELSE [code |-> SClientSocketError, str |-> "Socket connection failed."]

Init ==
    /\ sessionId_ = SessionId
    /\ interval_ = 0
    /\ bufferInterval_ = 0
    /\ bufferSize_ = 1
    /\ running_ = FALSE
    /\ standbyOverride_ = FALSE
    /\ connections = 0
    /\ socketOpen \in BOOLEAN
    /\ errorCode_ = ConstructError(socketOpen).code
    /\ errorString_ = ConstructError(socketOpen).str
    /\ fatal = FALSE
    /\ last = NoCall
    /\ prev = NoCall
    /\ nStart = 0 /\ nStop = 0 /\ nUp = 0 /\ nDown = 0
    /\ issued = FALSE
    /\ pristine = TRUE
    /\ given = [setInterval |-> 0, setBufferInterval |-> 0,
                setBufferSize |-> 1, setStandbyOverride |-> FALSE]
    /\ released = FALSE
    /\ alive = TRUE

\* A clearError() that resets the kind but keeps the message.
clearErrorKeepsString == [code |-> SNoError, str |-> errorString_]

\* A clearError() that resets nothing.
clearErrorKeepsAll == [code |-> errorCode_, str |-> errorString_]

\* clearError(): the local error state after it ran.
clearError == [code |-> SNoError, str |-> ""]

Config   == << interval_, bufferInterval_, bufferSize_, standbyOverride_ >>
Fixed    == << sessionId_, socketOpen, fatal >>

\* Every call ends by recording itself and counting the start/stop RPCs.
Record(name, arg, rpcs, reads, result) ==
    /\ last' = Call(name, arg, rpcs, reads, result)
    /\ prev' = Shift
    /\ nStart' = nStart + CountOf("start", rpcs)
    /\ nStop' = nStop + CountOf("stop", rpcs)
    /\ nUp' = IF ~running_ /\ running_' THEN nUp + 1 ELSE nUp
    /\ nDown' = IF running_ /\ ~running_' THEN nDown + 1 ELSE nDown
    /\ issued' = (issued \/ rpcs # << >>)
    /\ pristine' = (pristine /\ name \in ReaderNames)
    /\ given' = IF name \in DOMAIN given
                THEN [given EXCEPT ![name] = arg[1]] ELSE given
    /\ released' = (released \/ (name = "release" /\ result))
    /\ alive' = (name # "destroy")

ClearLocalError ==
    /\ errorCode_' = clearError.code
    /\ errorString_' = clearError.str

\* ------------------------------------------------------------ start / stop
\* A start(int) without its early return.
StartNeverNoop == FALSE

\* start(int): the early return taken when the session is already running.
StartIsNoop == running_

\* connect(readyRead(), dataReceived()) adds one connection.
Connected(conns) == conns + 1

\* A disconnect() that was left out of stop(int).
StillConnected(conns) == conns

\* disconnect(readyRead(), dataReceived()) removes every such connection.
Disconnected(conns) == 0

\* A stop(int) that writes the values it pushes into the cache.
StopResetsConfig ==
    [interval |-> 0, bufferInterval |-> bufferInterval_,
     bufferSize |-> bufferSize_, standbyOverride |-> FALSE]

\* stop(int) assigns none of the cached settings.
ConfigAfterStop ==
    [interval |-> interval_, bufferInterval |-> bufferInterval_,
     bufferSize |-> bufferSize_, standbyOverride |-> standbyOverride_]

\* A start(int) that pushes the interval before the start call.
StartRpcsIntervalFirst(sid, conns) ==
    << Rpc("setInterval", <<sid, interval_>>, TRUE, conns),
       Rpc("start", <<sid>>, TRUE, conns) >>
    \o (IF standbyOverride_
        THEN << Rpc("setStandbyOverride", <<sid, TRUE>>, TRUE, conns) >>
        ELSE << >>)
    \o << Rpc("setBufferInterval", <<sid, bufferInterval_>>, TRUE, conns),
          Rpc("setBufferSize", <<sid, bufferSize_>>, TRUE, conns) >>

\* start(int): the calls issued after running_ was set and readyRead() was
\* connected (conns is the connection count at that point).
StartRpcs(sid, conns) ==
    << Rpc("start", <<sid>>, TRUE, conns) >>
    \o (IF standbyOverride_
        THEN << Rpc("setStandbyOverride", <<sid, TRUE>>, TRUE, conns) >>
        ELSE << >>)
    \o << Rpc("setInterval", <<sid, interval_>>, TRUE, conns),
          Rpc("setBufferInterval", <<sid, bufferInterval_>>, TRUE, conns),
          Rpc("setBufferSize", <<sid, bufferSize_>>, TRUE, conns) >>

start ==
    /\ Usable
    /\ running_ \/ nUp < MaxStarts
    /\ ClearLocalError
    /\ IF StartIsNoop
       THEN /\ UNCHANGED << running_, connections >>
            /\ Record("start", << >>, << >>, {}, TRUE)
       ELSE /\ running_' = TRUE
            /\ connections' = Connected(connections)
            /\ \E reply \in BOOLEAN :
                 Record("start", << >>, StartRpcs(sessionId_, connections'),
                        {}, reply)
    /\ UNCHANGED << Config, Fixed >>

\* stop(int): the early return taken when the session is not running.
StopIsNoop == ~running_

\* A stop(int) that leaves the remote standby override alone.
StopRpcsKeepOverride(sid, conns) ==
    << Rpc("setInterval", <<sid, 0>>, FALSE, conns),
       Rpc("stop", <<sid>>, FALSE, conns) >>

\* stop(int): the calls issued after running_ was reset and readyRead() was
\* disconnected.
StopRpcs(sid, conns) ==
    << Rpc("setStandbyOverride", <<sid, FALSE>>, FALSE, conns),
       Rpc("setInterval", <<sid, 0>>, FALSE, conns),
       Rpc("stop", <<sid>>, FALSE, conns) >>

stop ==
    /\ Usable
    /\ ClearLocalError
    /\ IF StopIsNoop
       THEN /\ UNCHANGED << running_, connections >>
            /\ Record("stop", << >>, << >>, {}, TRUE)
       ELSE /\ running_' = FALSE
            /\ connections' = Disconnected(connections)
            /\ \E reply \in BOOLEAN :
                 Record("stop", << >>, StopRpcs(sessionId_, connections'),
                        {}, reply)
    /\ interval_' = ConfigAfterStop.interval
    /\ bufferInterval_' = ConfigAfterStop.bufferInterval
    /\ bufferSize_' = ConfigAfterStop.bufferSize
    /\ standbyOverride_' = ConfigAfterStop.standbyOverride
    /\ UNCHANGED Fixed

\* ----------------------------------------------------------- value setters
\* Setters that forward to the (sessionId, value) overload in every state.
SetIntervalAlwaysPushes       == TRUE
SetBufferIntervalAlwaysPushes == TRUE

\* Whether the one-argument setter forwards to its (sessionId, value) overload.
SetIntervalPushes       == running_
SetBufferIntervalPushes == ~running_
SetBufferSizePushes     == ~running_

\* A (sessionId, value) overload: clearError(), then one blocking call.
Push(pushes, name, value) ==
    IF pushes
    THEN /\ ClearLocalError
         /\ Record(name, <<value>>,
                   << Rpc(name, <<sessionId_, value>>, running_, connections) >>,
                   {}, TRUE)
    ELSE /\ UNCHANGED << errorCode_, errorString_ >>
         /\ Record(name, <<value>>, << >>, {}, TRUE)

setInterval ==
    /\ Usable
    /\ UNCHANGED << bufferInterval_, bufferSize_, standbyOverride_, running_,
                    connections, Fixed >>
    /\ \E value \in IntervalValues :
         /\ interval_' = value
         /\ Push(SetIntervalPushes, "setInterval", value)

setBufferInterval ==
    /\ Usable
    /\ UNCHANGED << interval_, bufferSize_, standbyOverride_, running_,
                    connections, Fixed >>
    /\ \E value \in BufferIntervals :
         /\ bufferInterval_' = value
         /\ Push(SetBufferIntervalPushes, "setBufferInterval", value)

setBufferSize ==
    /\ Usable
    /\ UNCHANGED << interval_, bufferInterval_, standbyOverride_, running_,
                    connections, Fixed >>
    /\ \E value \in BufferSizes :
         /\ bufferSize_' = value
         /\ Push(SetBufferSizePushes, "setBufferSize", value)

setStandbyOverride ==
    /\ Usable
    /\ UNCHANGED << interval_, bufferInterval_, bufferSize_, running_,
                    connections, Fixed >>
    /\ \E override \in BOOLEAN, reply \in BOOLEAN :
         /\ standbyOverride_' = override
         /\ ClearLocalError
         /\ Record("setStandbyOverride", <<override>>,
                   << Rpc("setStandbyOverride", <<sessionId_, override>>,
                          running_, connections) >>,
                   {}, reply)

\* ---------------------------------------------------------- const readers
Session == << errorCode_, errorString_, Config, running_, connections, Fixed >>

\* A const member function: it changes no field of the session.
Reader(name, reads, result) ==
    /\ Usable
    /\ UNCHANGED Session
    /\ Record(name, << >>, << >>, reads, result)

\* An errorCode() that always asks the remote side.
errorCodeRemoteOnly(remote) == remote

\* errorCode(): the local kind when one is recorded, else the remote one.
errorCodeValue(remote) == IF errorCode_ # SNoError THEN errorCode_ ELSE remote
errorCodeReads         == IF errorCode_ # SNoError THEN {} ELSE {"errorCodeInt"}

errorCode ==
    \E remote \in RemoteErrorCodes :
        Reader("errorCode", errorCodeReads, errorCodeValue(remote))

\* errorString(): the local message when a local kind is recorded.
errorStringValue(remote) == IF errorCode_ # SNoError THEN errorString_ ELSE remote
errorStringReads         == IF errorCode_ # SNoError THEN {} ELSE {"errorString"}

errorString ==
    \E remote \in RemoteStrings :
        Reader("errorString", errorStringReads, errorStringValue(remote))

description ==
    \E remote \in RemoteStrings : Reader("description", {"description"}, remote)

id ==
    \E remote \in RemoteStrings : Reader("id", {"id"}, remote)

type ==
    \E remote \in RemoteStrings : Reader("type", {"type"}, remote)

sessionId == Reader("sessionId", {}, sessionId_)

\* Getters that always ask the remote side.
ShadowedAlwaysRemote(name, cached, remote) == Reader(name, {name}, remote)

\* The shadowed getters: the live remote property while running, the cached
\* field otherwise.
Shadowed(name, cached, remote) ==
    IF running_ THEN Reader(name, {name}, remote) ELSE Reader(name, {}, cached)

interval ==
    \E remote \in RemoteInts : Shadowed("interval", interval_, remote)

bufferInterval ==
    \E remote \in RemoteInts : Shadowed("bufferInterval", bufferInterval_, remote)

bufferSize ==
    \E remote \in RemoteInts : Shadowed("bufferSize", bufferSize_, remote)

standbyOverride ==
    \E remote \in BOOLEAN : Shadowed("standbyOverride", standbyOverride_, remote)

\* ------------------------------------------------------------ live queries
\* A blocking call that touches no field (not even the error state).
LiveQuery(name, result) ==
    /\ Usable
    /\ UNCHANGED Session
    /\ Record(name, << >>, << Rpc(name, << >>, running_, connections) >>,
              {}, result)

getAvailableDataRanges ==
    \E list \in DataRangeLists : LiveQuery("getAvailableDataRanges", list)

getAvailableIntervals ==
    \E list \in IntervalLists : LiveQuery("getAvailableIntervals", list)

getAvailableBufferIntervals ==
    \E list \in IntegerRangeLists : LiveQuery("getAvailableBufferIntervals", list)

getAvailableBufferSizes ==
    \E list \in IntegerRangeLists : LiveQuery("getAvailableBufferSizes", list)

hwBuffering ==
    \E reply \in BOOLEAN : LiveQuery("hwBuffering", reply)

\* ------------------------------------------------------------- data ranges
\* A data-range call: clearError(), then its blocking call(s).
RangeCall(name, arg, rpcs, result) ==
    /\ Usable
    /\ UNCHANGED << Config, running_, connections, sessionId_, socketOpen >>
    /\ ClearLocalError
    /\ Record(name, arg, rpcs, {}, result)

getCurrentDataRange ==
    /\ \E range \in DataRanges :
         RangeCall("getCurrentDataRange", << >>,
                   << Rpc("getCurrentDataRange", << >>, running_, connections) >>,
                   range)
    /\ UNCHANGED fatal

requestDataRange ==
    /\ \E range \in DataRanges :
         RangeCall("requestDataRange", <<range>>,
                   << Rpc("requestDataRange", <<sessionId_, range>>,
                          running_, connections) >>,
                   TRUE)
    /\ UNCHANGED fatal

removeDataRangeRequest ==
    /\ RangeCall("removeDataRangeRequest", << >>,
                 << Rpc("removeDataRangeRequest", <<sessionId_>>,
                        running_, connections) >>,
                 TRUE)
    /\ UNCHANGED fatal

\* QList::at(i) is defined only for 0 <= i < size().
InList(i, list) == i >= 0 /\ i < Len(list)

\* A comparison against the first element instead of the indexed one.
RangeMatchesFirst(i, list, range) == list[1] = range

\* ranges.at(dataRangeIndex) == range, where the index addresses an element.
RangeMatches(i, list, range) == list[i + 1] = range

\* What ranges.at(i) == range can do when i addresses no element: the
\* index assertion ends the process, or the read past the list yields
\* either answer.
OutOfRangeOutcomes == {"fatal", "true", "false"}

\* setDataRangeIndex(int): the three calls, in the order issued.
SetDataRangeIndexRpcs(i) ==
    << Rpc("setDataRangeIndex", <<sessionId_, i>>, running_, connections),
       Rpc("getAvailableDataRanges", << >>, running_, connections),
       Rpc("getCurrentDataRange", << >>, running_, connections) >>

setDataRangeIndex ==
    \E i \in RangeIndices, list \in DataRangeLists, range \in DataRanges :
        \E outcome \in IF InList(i, list)
                       THEN {IF RangeMatches(i, list, range)
                             THEN "true" ELSE "false"}
                       ELSE OutOfRangeOutcomes :
            /\ fatal' = (outcome = "fatal")
            /\ RangeCall("setDataRangeIndex", <<i>>, SetDataRangeIndexRpcs(i),
                         [ranges |-> list, range |-> range, value |-> outcome])

\* -------------------------------------------------- release / destructor
\* release(): reads id() and asks the session registry to release the
\* session; no field of the session records that it happened.
ReleaseRpcs(interfaceId) ==
    << Rpc("releaseInterface", << interfaceId, sessionId_ >>,
           running_, connections) >>

release ==
    /\ Usable
    /\ UNCHANGED Session
    /\ \E interfaceId \in RemoteStrings, reply \in BOOLEAN :
         Record("release", << >>, ReleaseRpcs(interfaceId), {"id"}, reply)

\* A destructor that tears the data channel down before releasing.
DestructorStepsDropFirst(valid) ==
    << "dropConnection" >>
    \o (IF valid THEN << "release" >> ELSE << >>)
    \o << "delete" >>

\* The destructor's steps in order, given isValid().
DestructorSteps(valid) ==
    (IF valid THEN << "release" >> ELSE << >>)
    \o << "dropConnection", "delete" >>

\* The local error after the destructor's dropConnection() returned.
DropError(dropped) ==
    IF dropped THEN [code |-> errorCode_, str |-> errorString_]
    ELSE [code |-> SClientSocketError, str |-> "Socket disconnect failed."]

destroy ==
    /\ Usable
    /\ UNCHANGED << Config, running_, connections, Fixed >>
    /\ \E valid \in BOOLEAN, dropped \in BOOLEAN, interfaceId \in RemoteStrings :
         /\ errorCode_' = DropError(dropped).code
         /\ errorString_' = DropError(dropped).str
         /\ Record("destroy", << >>,
                   IF valid THEN ReleaseRpcs(interfaceId) ELSE << >>,
                   IF valid THEN {"id"} ELSE {},
                   [valid |-> valid, dropped |-> dropped,
                    steps |-> DestructorSteps(valid)])

\* ------------------------------------------------------------- drain loop
\* socket()->bytesAvailable() for a buffer of complete frames and a
\* trailing partial frame.
BytesAvailable(frames, partial) == frames * FrameSize + partial

\* The subclass's frame decoder: it consumes one frame when a complete one
\* is buffered and reports false otherwise.
dataReceivedImpl(frames) ==
    IF frames >= 1 THEN [ok |-> TRUE, frames |-> frames - 1]
    ELSE [ok |-> FALSE, frames |-> frames]

\* A loop that tests the byte count before its first attempt.
DrainEntersIfBytes(bytes) == bytes # 0

\* do { ... }: the body runs before any test of the byte count.
DrainEnters(bytes) == TRUE

\* A loop that stops after one frame.
DrainNeverContinues(bytes) == FALSE

\* ... while (bytesAvailable()).
DrainContinues(bytes) == bytes # 0

RECURSIVE DrainLoop(_, _, _)
DrainLoop(frames, partial, attempts) ==
    LET r == dataReceivedImpl(frames) IN
    IF ~r.ok
    THEN [attempts |-> attempts + 1, left |-> r.frames, exit |-> "incomplete"]
    ELSE IF DrainContinues(BytesAvailable(r.frames, partial))
         THEN DrainLoop(r.frames, partial, attempts + 1)
         ELSE [attempts |-> attempts + 1, left |-> r.frames, exit |-> "empty"]

\* dataReceived(): attempts made, frames left and why the loop was left.
dataReceived(frames, partial) ==
    IF DrainEnters(BytesAvailable(frames, partial))
    THEN DrainLoop(frames, partial, 0)
    ELSE [attempts |-> 0, left |-> frames, exit |-> "empty"]

\* The socket's readyRead() invokes the slot once per connection held; each
\* invocation finds what the one before it left.
RECURSIVE Deliver(_, _, _)
Deliver(slots, frames, partial) ==
    IF slots = 0 THEN << >>
    ELSE LET run == dataReceived(frames, partial) IN
         << [entry |-> frames] @@ run >> \o Deliver(slots - 1, run.left, partial)

readyRead ==
    /\ Usable
    /\ UNCHANGED Session
    /\ \E frames \in 0 .. MaxFrames, partial \in 0 .. (FrameSize - 1) :
         Record("readyRead", << frames, partial >>, << >>, {},
                Deliver(connections, frames, partial))

Next ==
    \/ start
    \/ stop
    \/ setInterval
    \/ setBufferInterval
    \/ setBufferSize
    \/ setStandbyOverride
    \/ errorCode
    \/ errorString
    \/ description
    \/ id
    \/ type
    \/ sessionId
    \/ interval
    \/ bufferInterval
    \/ bufferSize
    \/ standbyOverride
    \/ getAvailableDataRanges
    \/ getAvailableIntervals
    \/ getAvailableBufferIntervals
    \/ getAvailableBufferSizes
    \/ hwBuffering
    \/ getCurrentDataRange
    \/ requestDataRange
    \/ removeDataRangeRequest
    \/ setDataRangeIndex
    \/ release
    \/ destroy
    \/ readyRead

Spec == Init /\ [][Next]_vars

\* ==================================================================== C1
\* C1: a start() made while running and a stop() made while not running
\* issue no RPC at all, so the start RPCs issued since construction are as
\* many as the not-running -> running transitions and the stop RPCs as many
\* as the running -> not-running transitions.
C1_RedundantCallsIssueNothing ==
    /\ (last.name = "start" /\ last.wasRunning) => last.rpcs = << >>
    /\ (last.name = "stop" /\ ~last.wasRunning) => last.rpcs = << >>
    /\ nStart = nUp
    /\ nStop = nDown

\* start, stop, start, then a second start while running.
C1_Witness ==
    /\ last.name = "start" /\ last.wasRunning
    /\ nUp = 2 /\ nDown = 1

\* ==================================================================== C2
\* A step that is a start() on a running session or a stop() on a session
\* that is not running.
RedundantStep ==
    \/ last'.name = "start" /\ running_
    \/ last'.name = "stop" /\ ~running_

\* C2 as stated: a redundant start()/stop() leaves running, the
\* subscription, the cached configuration and the local error unchanged.
C2_RedundantCallChangesNothing ==
    [][RedundantStep =>
         UNCHANGED << running_, connections, Config, errorCode_, errorString_ >>]_vars

\* C2 as amended: a redundant start()/stop() leaves running, the subscription
\* and the cached configuration unchanged, and leaves the local error state
\* cleared (kind none, empty message).
C2_RedundantCallOnlyClearsError ==
    [][RedundantStep =>
         /\ UNCHANGED << running_, connections, Config >>
         /\ errorCode_' = SNoError
         /\ errorString_' = ""]_vars

\* A stop() on a never-started session whose data channel failed to open.
C2_Witness ==
    /\ last.name = "stop" /\ ~last.wasRunning
    /\ last.hadError = SClientSocketError
    /\ errorCode_ = SNoError
    /\ nUp = 0

\* ==================================================================== C3
\* C3: when setInterval(v) is called while not running and start() is the
\* next call, setInterval(v) itself issues nothing, and start() issues
\* exactly one setInterval RPC, carrying (sessionId, v), after its start RPC.
C3_IntervalPushedOnceAtStart ==
    (last.name = "start" /\ prev.name = "setInterval" /\ ~prev.wasRunning) =>
        /\ prev.rpcs = << >>
        /\ CountOf("setInterval", prev.rpcs \o last.rpcs) = 1
        /\ \E i, j \in DOMAIN last.rpcs :
              /\ i < j
              /\ last.rpcs[i].name = "start"
              /\ last.rpcs[j].name = "setInterval"
              /\ last.rpcs[j].args = << sessionId_, prev.arg[1] >>

C3_Witness ==
    /\ last.name = "start"
    /\ prev.name = "setInterval" /\ ~prev.wasRunning /\ prev.arg = << 100 >>
    /\ running_

\* ==================================================================== C4
\* The RPCs of a list that have this name and carry (sessionId, v).
Carrying(name, v, rpcs) ==
    { i \in DOMAIN rpcs : rpcs[i].name = name /\ rpcs[i].args = << sessionId_, v >> }

\* C4: for each value setter called with v while not running and followed
\* by start(), the matching RPC carrying v is issued exactly once up to the
\* return of start(), and that one issue is made by start().
C4_ConfigAppliedOnceAtStart ==
    (last.name = "start" /\ prev.name \in SetterNames /\ ~prev.wasRunning) =>
        /\ Carrying(prev.name, prev.arg[1], prev.rpcs) = {}
        /\ Cardinality(Carrying(prev.name, prev.arg[1], last.rpcs)) = 1

\* ==================================================================== C5
\* C5: setBufferInterval(v) and setBufferSize(v) always cache v; called
\* while not running they issue exactly one RPC of their own name carrying
\* (sessionId, v), and called while running they issue none.
C5_BufferSettersPushWhenStopped ==
    (last.name \in {"setBufferInterval", "setBufferSize"}) =>
        /\ last.name = "setBufferInterval" => bufferInterval_ = last.arg[1]
        /\ last.name = "setBufferSize" => bufferSize_ = last.arg[1]
        /\ last.wasRunning => last.rpcs = << >>
        /\ ~last.wasRunning =>
              /\ Len(last.rpcs) = 1
              /\ last.rpcs[1].name = last.name
              /\ last.rpcs[1].args = << sessionId_, last.arg[1] >>

\* setBufferInterval(10) on a running session: cached, nothing issued.
C5_Witness ==
    /\ last.name = "setBufferInterval" /\ last.wasRunning
    /\ last.arg = << 10 >> /\ bufferInterval_ = 10

\* ==================================================================== C6
\* C6: while a local error is recorded, errorCode() returns the local kind
\* and errorString() the local message without reading the remote error
\* properties, whatever those hold; and no property accessor changes the
\* local error state.
C6_LocalErrorTakesPrecedence ==
    /\ (last.name = "errorCode" /\ last.hadError # SNoError) =>
           last.result = last.hadError /\ last.reads = {}
    /\ (last.name = "errorString" /\ last.hadError # SNoError) =>
           last.result = last.hadString /\ last.reads = {}
    /\ (last.name \in ReaderNames) =>
           errorCode_ = last.hadError /\ errorString_ = last.hadString

\* errorCode() answered from the local error left by the constructor.
C6_Witness ==
    /\ last.name = "errorCode"
    /\ last.hadError = SClientSocketError
    /\ last.result = SClientSocketError
    /\ errorCode_ = SClientSocketError

\* ==================================================================== C7
\* C7: when the data channel failed to open, then until the first call other
\* than a const accessor the local error is the socket error, errorCode()
\* returns it without reading the remote property, the session is not
\* running, and no RPC has been issued.
C7_OpenFailureReportedAtOnce ==
    (~socketOpen /\ pristine) =>
        /\ errorCode_ = SClientSocketError
        /\ errorString_ = "Socket connection failed."
        /\ ~running_
        /\ ~issued
        /\ last.name = "errorCode" =>
              last.result = SClientSocketError /\ last.reads = {}

\* errorCode() as the first call after a construction whose open failed.
C7_Witness ==
    /\ ~socketOpen /\ pristine
    /\ last.name = "errorCode" /\ last.result = SClientSocketError

\* ==================================================================== C8
MutatorNames == SetterNames \cup {"start", "stop", "setStandbyOverride",
                                  "requestDataRange", "removeDataRangeRequest",
                                  "setDataRangeIndex"}

\* C8 as stated: every control mutator, called in any state with a local
\* error recorded, returns with the local error state 'none'.
C8_EveryMutatorClears ==
    (last.name \in MutatorNames /\ last.hadError # SNoError) =>
        errorCode_ = SNoError /\ errorString_ = ""

\* The value-setter calls that only cache: setInterval(v) while not running,
\* setBufferInterval(v) and setBufferSize(v) while running.
CachedOnly ==
    \/ last.name = "setInterval" /\ ~last.wasRunning
    \/ last.name \in {"setBufferInterval", "setBufferSize"} /\ last.wasRunning

\* C8 as amended: a control mutator called with a local error recorded
\* returns with the local error state 'none', except the value-setter calls
\* that only cache, which issue no RPC and leave the local error as it was.
C8_MutatorClearsUnlessCachedOnly ==
    (last.name \in MutatorNames /\ last.hadError # SNoError) =>
        IF CachedOnly
        THEN errorCode_ = last.hadError /\ errorString_ = last.hadString
                /\ last.rpcs = << >>
        ELSE errorCode_ = SNoError /\ errorString_ = ""

\* setBufferSize(10) clearing the error left by the constructor.
C8_Witness ==
    /\ last.name = "setBufferSize" /\ ~last.wasRunning
    /\ last.hadError = SClientSocketError
    /\ errorCode_ = SNoError /\ errorString_ = ""

\* ==================================================================== C9
\* C9: for an index that addresses an element of the returned list,
\* setDataRangeIndex(i) issues setDataRangeIndex(sessionId, i), then
\* getAvailableDataRanges, then getCurrentDataRange, and returns true
\* exactly when element i of that list equals that current range.
C9_IndexVerifiedAgainstCurrent ==
    (/\ last.name = "setDataRangeIndex"
     /\ last.arg[1] >= 0
     /\ last.arg[1] < Len(last.result.ranges)) =>
        /\ [k \in DOMAIN last.rpcs |-> last.rpcs[k].name] =
              << "setDataRangeIndex", "getAvailableDataRanges",
                 "getCurrentDataRange" >>
        /\ last.rpcs[1].args = << sessionId_, last.arg[1] >>
        /\ last.result.value \in {"true", "false"}
        /\ (last.result.value = "true") <=>
              (last.result.ranges[last.arg[1] + 1] = last.result.range)

\* Index 1 of a two-element list whose elements differ, matching the second.
C9_Witness ==
    /\ last.name = "setDataRangeIndex" /\ last.arg = << 1 >>
    /\ Len(last.result.ranges) = 2
    /\ last.result.ranges[1] # last.result.ranges[2]
    /\ last.result.ranges[2] = last.result.range
    /\ last.result.value = "true"

\* =================================================================== C10
\* C10: no operation ends the process; setDataRangeIndex(i) returns a
\* boolean for every i, and false when i addresses no element of the list.
C10_NothingIsFatal ==
    /\ ~fatal
    /\ last.name = "setDataRangeIndex" =>
          /\ last.result.value \in {"true", "false"}
          /\ ~(last.arg[1] >= 0 /\ last.arg[1] < Len(last.result.ranges)) =>
                last.result.value = "false"

\* =================================================================== C11
\* C11: a readyRead() handled with n >= 1 complete frames and no trailing
\* partial bytes makes exactly n consume attempts and leaves the loop after
\* the n-th, when no byte is available any more.
C11_DrainsEveryBufferedFrame ==
    (/\ last.name = "readyRead"
     /\ last.arg[1] >= 1 /\ last.arg[2] = 0
     /\ Len(last.result) >= 1) =>
        /\ last.result[1].attempts = last.arg[1]
        /\ last.result[1].exit = "empty"
        /\ last.result[1].left = 0

\* Three complete frames, no partial bytes, on a running session.
C11_Witness ==
    /\ last.name = "readyRead" /\ last.arg = << 3, 0 >>
    /\ last.wasRunning
    /\ Len(last.result) = 1 /\ last.result[1].attempts = 3

\* =================================================================== C12
ControlNames == MutatorNames \cup {"getCurrentDataRange", "getAvailableDataRanges"}

\* C12: once release() has returned true, no later start, stop, setter or
\* data-range call issues an RPC.
C12_ReleaseIsTerminal ==
    (last.name \in ControlNames /\ last.wasReleased) => last.rpcs = << >>

\* =================================================================== C13
\* C13: running is true only after a start whose start RPC succeeded: a
\* start() on a session that was not running leaves running true exactly
\* when its start RPC succeeded.
C13_RunningOnlyAfterSuccessfulStart ==
    (last.name = "start" /\ ~last.wasRunning) => (running_ <=> last.result)

\* =================================================================== C14
\* C14: a start() on a session that is not running issues, in this order
\* and nothing else: start(sessionId); setStandbyOverride(sessionId, true)
\* exactly when the cached override is true; setInterval, setBufferInterval
\* and setBufferSize with the cached values; every one of them with running
\* already true and the readyRead() subscription in place.
C14_StartSequence ==
    (last.name = "start" /\ ~last.wasRunning) =>
        LET off == IF standbyOverride_ THEN 1 ELSE 0
            r   == last.rpcs
        IN  /\ Len(r) = 4 + off
            /\ r[1].name = "start" /\ r[1].args = << sessionId_ >>
            /\ standbyOverride_ =>
                  /\ r[2].name = "setStandbyOverride"
                  /\ r[2].args = << sessionId_, TRUE >>
            /\ r[2 + off].name = "setInterval"
            /\ r[2 + off].args = << sessionId_, interval_ >>
            /\ r[3 + off].name = "setBufferInterval"
            /\ r[3 + off].args = << sessionId_, bufferInterval_ >>
            /\ r[4 + off].name = "setBufferSize"
            /\ r[4 + off].args = << sessionId_, bufferSize_ >>
            /\ \A k \in DOMAIN r : r[k].running /\ r[k].subscribed

\* A start with the override cached true and non-initial settings.
C14_Witness ==
    /\ last.name = "start" /\ ~last.wasRunning
    /\ standbyOverride_ /\ interval_ = 100 /\ bufferSize_ = 10
    /\ Len(last.rpcs) = 5

\* =================================================================== C15
\* C15: a stop() on a running session issues exactly
\* setStandbyOverride(sessionId, false), setInterval(sessionId, 0) and
\* stop(sessionId), in this order, each with running already false and the
\* readyRead() subscription already removed.
C15_StopSequence ==
    (last.name = "stop" /\ last.wasRunning) =>
        /\ [k \in DOMAIN last.rpcs |-> last.rpcs[k].name] =
              << "setStandbyOverride", "setInterval", "stop" >>
        /\ last.rpcs[1].args = << sessionId_, FALSE >>
        /\ last.rpcs[2].args = << sessionId_, 0 >>
        /\ last.rpcs[3].args = << sessionId_ >>
        /\ \A k \in DOMAIN last.rpcs :
              ~last.rpcs[k].running /\ ~last.rpcs[k].subscribed

\* A stop of a running session whose override and interval were set.
C15_Witness ==
    /\ last.name = "stop" /\ last.wasRunning
    /\ standbyOverride_ /\ interval_ = 100
    /\ ~running_

\* =================================================================== C16
\* The setter whose value each shadowed getter returns.
SetterOf == [interval |-> "setInterval", bufferInterval |-> "setBufferInterval",
             bufferSize |-> "setBufferSize"]

\* C16: while not running, interval(), bufferInterval() and bufferSize()
\* return the value most recently passed to their setter (initially 0, 0, 1)
\* without reading the remote property; while running they read it.
C16_ShadowedReads ==
    (last.name \in DOMAIN SetterOf) =>
        IF last.wasRunning
        THEN last.reads = {last.name}
        ELSE last.reads = {} /\ last.result = given[SetterOf[last.name]]

\* interval() after a stop returns the 100 given earlier, not the pushed 0.
C16_Witness ==
    /\ last.name = "interval" /\ ~last.wasRunning
    /\ nDown >= 1
    /\ last.result = 100

\* =================================================================== C17
\* Where a step sits in the destructor's sequence (0 when absent).
StepAt(name, steps) ==
    IF \E k \in DOMAIN steps : steps[k] = name
    THEN CHOOSE k \in DOMAIN steps : steps[k] = name ELSE 0

\* C17: destruction always attempts the data-channel teardown; with a valid
\* control handle a release request for this sessionId comes before it and
\* never after it; a failed teardown is recorded as the local socket error
\* and the destructor still runs to its end.
C17_DestructorReleasesThenTearsDown ==
    (last.name = "destroy") =>
        LET st == last.result.steps IN
        /\ StepAt("dropConnection", st) > 0
        /\ last.result.valid =>
              /\ StepAt("release", st) > 0
              /\ StepAt("release", st) < StepAt("dropConnection", st)
              /\ Len(last.rpcs) = 1
              /\ last.rpcs[1].name = "releaseInterface"
              /\ last.rpcs[1].args[2] = sessionId_
        /\ ~last.result.valid => StepAt("release", st) = 0 /\ last.rpcs = << >>
        /\ ~last.result.dropped =>
              /\ errorCode_ = SClientSocketError
              /\ errorString_ = "Socket disconnect failed."
        /\ st[Len(st)] = "delete"
        /\ ~alive /\ ~fatal

\* A running session destroyed with a valid handle and a failing teardown.
C17_Witness ==
    /\ last.name = "destroy" /\ last.wasRunning
    /\ last.result.valid /\ ~last.result.dropped
    /\ errorCode_ = SClientSocketError

\* =================================================================== C18
\* C18: each handling of readyRead() ends; it makes at least one consume
\* attempt, even with no byte available, and at most one more than the
\* complete frames buffered; it ends at the first attempt that finds no
\* complete frame, or once no byte is available after a successful attempt.
C18_DrainIsBounded ==
    (last.name = "readyRead") =>
        \A k \in DOMAIN last.result :
            LET run == last.result[k] IN
            /\ run.attempts >= 1
            /\ run.attempts <= run.entry + 1
            /\ run.left = 0
            /\ run.exit = "incomplete" => run.attempts = run.entry + 1
            /\ run.exit = "empty" =>
                  /\ run.attempts = run.entry
                  /\ BytesAvailable(run.left, last.arg[2]) = 0

\* A notification with nothing buffered still makes one attempt.
C18_Witness ==
    /\ last.name = "readyRead" /\ last.arg = << 0, 0 >>
    /\ Len(last.result) = 1
    /\ last.result[1].attempts = 1 /\ last.result[1].exit = "incomplete"

\* =================================================================== C19
\* C19: between calls the session holds one readyRead() subscription when
\* running and none otherwise, so a readyRead() while not running makes no
\* consume attempt and one while running runs the drain loop exactly once.
C19_SubscribedIffRunning ==
    /\ connections = (IF running_ THEN 1 ELSE 0)
    /\ last.name = "readyRead" =>
          Len(last.result) = (IF last.wasRunning THEN 1 ELSE 0)

\* A readyRead() with frames buffered after the session was stopped.
C19_Witness ==
    /\ last.name = "readyRead" /\ ~last.wasRunning
    /\ nDown >= 1
    /\ last.arg[1] >= 1 /\ last.result = << >>

\* =================================================================== C20
\* C20: stop() leaves the cached settings at the values last given to the
\* setters although it pushes override=false and interval=0, so a start
\* after a stop re-issues setStandbyOverride(sessionId, true) exactly when
\* the override was last set true, and setInterval, setBufferInterval and
\* setBufferSize with the values last given.
C20_StopKeepsCacheForRestart ==
    /\ (last.name = "stop") =>
          Config = << given.setInterval, given.setBufferInterval,
                      given.setBufferSize, given.setStandbyOverride >>
    /\ (last.name = "start" /\ ~last.wasRunning /\ nDown >= 1) =>
          /\ (Carrying("setStandbyOverride", TRUE, last.rpcs) # {})
                <=> given.setStandbyOverride
          /\ \A n \in SetterNames :
                Cardinality(Carrying(n, given[n], last.rpcs)) = 1

\* The second start of a start/stop/start run with override and interval set.
C20_Witness ==
    /\ last.name = "start" /\ ~last.wasRunning
    /\ nUp = 2 /\ nDown = 1
    /\ given.setStandbyOverride /\ given.setInterval = 100
    /\ Len(last.rpcs) = 5

====
